---- MODULE Spec2Model ----
(***************************************************************************)
(* Webhook forwarding of pkg/whatsapp/webhook.go: forwardToWebhook builds  *)
(* one payload for an event (createPayload, createReceiptPayload,          *)
(* createPresencePayload) and hands it to submitWebhook for every          *)
(* configured URL in turn; submitWebhook marshals, signs and POSTs it with *)
(* up to maxAttempts attempts and a doubling sleep after each failure.     *)
(***************************************************************************)
EXTENDS Integers, Sequences, FiniteSets, TLC

(* Longest list of configured webhook URLs explored. *)
MaxEndpoints == 2

(* var maxAttempts = 5 *)
maxAttempts == 5

(* var sleepDuration = 1 * time.Second, counted in seconds *)
InitialSleepDuration == 1

(* Callers of forwardToWebhook (goroutines handling one event each). *)
Callers == {"c1", "c2"}

(* The callers that run under Spec. *)
MainCallers == {"c1"}

Nil == <<"nil">>

(* ------------------------------------------------------------------ *)
(* Configuration values (package config), never written by this file.  *)
(* "%zz" is a URL that url.Parse rejects (invalid escape).             *)
URLs == {"http://a", "http://b", "%zz"}

Secrets == {"", "s3cret"}

PathMedia == "statics/media"

RECURSIVE SeqsUpTo(_, _)
SeqsUpTo(S, n) ==
  IF n = 0 THEN {<<>>}
  ELSE LET shorter == SeqsUpTo(S, n - 1)
       IN  shorter \cup {Append(s, x) : s \in {t \in shorter : Len(t) = n - 1}, x \in S}

EndpointLists == SeqsUpTo(URLs, MaxEndpoints)

(* ------------------------------------------------------------------ *)
(* JSON values of a payload: a tagged pair, so that values of          *)
(* different Go types are never equal.                                 *)
Str(s) == <<"string", s>>
Bool(b) == <<"bool", b>>
Obj(o) == <<"object", o>>
List(l) == <<"array", l>>

(* body[k] = v on a Go map *)
Put(body, k, v) == [x \in (DOMAIN body) \cup {k} |-> IF x = k THEN v ELSE body[x]]

EmptyMap == [x \in {} |-> Nil]

(* time.Time values: 0 is the zero time. Format(time.RFC3339) never     *)
(* yields the empty string, the zero time formats as 0001-01-01T...    *)
Times == {0, 1, 2}

FormatRFC3339(t) ==
  CASE t = 0 -> "0001-01-01T00:00:00Z"
    [] t = 1 -> "2024-05-01T10:00:01Z"
    [] t = 2 -> "2024-05-01T10:00:02Z"
    [] OTHER -> "2024-05-01T10:00:03Z"

IsZero(t) == t = 0

(* What time.Now() can return. *)
NowTimes == {1, 2}

(* ------------------------------------------------------------------ *)
(* Events. A message event carries the fields createPayload reads.     *)
MediaKinds == {"audio", "document", "image", "sticker", "video"}

SubKinds == {"contact", "list", "live_location", "location", "order"}

(* The order in which createPayload visits the sub-messages. *)
MessageOrder ==
  <<"audio", "contact", "document", "image", "list", "live_location",
    "location", "order", "sticker", "video">>

(* A location message whose coordinates are NaN, a value json.Marshal  *)
(* rejects as unsupported.                                             *)
NaNLocation == <<"unsupported", "location">>

SubValue(k) == Obj(k)

MessageEvent(from, text, pushname, reaction, viewOnce, forwarded, ts, media, subs, nan) ==
  [kind |-> "message", from |-> from, text |-> text, pushname |-> pushname,
   reaction |-> reaction, viewOnce |-> viewOnce, forwarded |-> forwarded,
   ts |-> ts, media |-> media, subs |-> subs, nan |-> nan]

ReceiptEvent(from, ts, ids, type) ==
  [kind |-> "receipt", from |-> from, ts |-> ts, ids |-> ids, type |-> type]

PresenceEvent(from, unavailable, lastSeen) ==
  [kind |-> "presence", from |-> from, unavailable |-> unavailable, lastSeen |-> lastSeen]

OtherEvent(kind) == [kind |-> kind]

(* types.ReceiptTypeDelivered is the empty string in whatsmeow. *)
ReceiptTypeDelivered == ""

ReceiptTypes == {ReceiptTypeDelivered, "read", "played"}

SupportedKinds == {"message", "receipt", "presence"}

(* Kinds the type switch has no case for (a call offer, a nil event). *)
OtherKinds == {"call_offer", "nil"}

(* The events forwarded under Spec. *)
ForwardEvents ==
  { MessageEvent("123@s", "hello", "", "", FALSE, FALSE, 1, {}, {}, FALSE),
    MessageEvent("123@s", "", "bob", "", TRUE, TRUE, 2, {"audio", "video"}, {"contact"}, FALSE),
    MessageEvent("", "", "", "+1", FALSE, FALSE, 0, {"image"}, {"location"}, TRUE),
    ReceiptEvent("123@s", 1, <<"m1", "m2">>, ReceiptTypeDelivered),
    ReceiptEvent("123@s", 2, <<>>, "read"),
    PresenceEvent("123@s", FALSE, 1),
    PresenceEvent("123@s", TRUE, 2) }
  \cup { OtherEvent(k) : k \in OtherKinds }

(* ------------------------------------------------------------------ *)
(* External collaborators of the message builder.                      *)

(* ExtractMedia(config.PathMedia, media): a path, or an error. *)
ExtractFail == "extract-error"

ExtractedPaths == {"statics/media/1", "statics/media/2"}

ExtractOutcomes == {ExtractFail} \cup ExtractedPaths

(* buildEventMessage(evt): the text of the event with the message id. *)
buildEventMessage(e) == [Text |-> e.text, ID |-> "id"]

(* buildEventReaction(evt): the reaction emoji with the message id. *)
buildEventReaction(e) == [Message |-> e.reaction, ID |-> "id"]

(* buildForwarded(evt): whether the context info marks it forwarded. *)
buildForwarded(e) == e.forwarded

(* pkgError.WebhookError(msg): every failure of this file but the      *)
(* unsupported event is a WebhookError, told apart by its message.     *)
WebhookError(msg, cause) == [type |-> "WebhookError", msg |-> msg, cause |-> cause]

NoError == [type |-> "nil", msg |-> "", cause |-> ""]

UnsupportedError(kind) == [type |-> "error", msg |-> "unsupported event type", cause |-> kind]

(* ------------------------------------------------------------------ *)
(* createPayload: the gated keys first, then the sub-messages in the   *)
(* order of MessageOrder; ex gives the outcome of ExtractMedia for     *)
(* each medium of the event. The result carries the extractor calls    *)
(* made, in order, each with what it returned.                         *)
ExtractCall(k, outcome) == [kind |-> k, root |-> PathMedia, result |-> outcome]

(* Mutant: pushname is stored without the test on the empty string. *)
GatedKeysPushnameUngated(e) ==
  LET message == buildEventMessage(e)
      waReaction == buildEventReaction(e)
      forwarded == buildForwarded(e)
      b0 == Put(EmptyMap, "event_type", Str("message"))
      b1 == IF e.from # "" THEN Put(b0, "from", Str(e.from)) ELSE b0
      b2 == IF message.Text # "" THEN Put(b1, "message", Obj(message)) ELSE b1
      b3 == Put(b2, "pushname", Str(e.pushname))
      b4 == IF waReaction.Message # "" THEN Put(b3, "reaction", Obj(waReaction)) ELSE b3
      b5 == IF e.viewOnce THEN Put(b4, "view_once", Bool(e.viewOnce)) ELSE b4
      b6 == IF forwarded THEN Put(b5, "forwarded", Bool(forwarded)) ELSE b5
      b7 == IF FormatRFC3339(e.ts) # "" THEN Put(b6, "timestamp", Str(FormatRFC3339(e.ts))) ELSE b6
  IN  b7

GatedKeys(e) ==
  LET message == buildEventMessage(e)
      waReaction == buildEventReaction(e)
      forwarded == buildForwarded(e)
      b0 == Put(EmptyMap, "event_type", Str("message"))
      b1 == IF e.from # "" THEN Put(b0, "from", Str(e.from)) ELSE b0
      b2 == IF message.Text # "" THEN Put(b1, "message", Obj(message)) ELSE b1
      b3 == IF e.pushname # "" THEN Put(b2, "pushname", Str(e.pushname)) ELSE b2
      b4 == IF waReaction.Message # "" THEN Put(b3, "reaction", Obj(waReaction)) ELSE b3
      b5 == IF e.viewOnce THEN Put(b4, "view_once", Bool(e.viewOnce)) ELSE b4
      b6 == IF forwarded THEN Put(b5, "forwarded", Bool(forwarded)) ELSE b5
      b7 == IF FormatRFC3339(e.ts) # "" THEN Put(b6, "timestamp", Str(FormatRFC3339(e.ts))) ELSE b6
  IN  b7

SubMessage(e, k) == IF k = "location" /\ e.nan THEN NaNLocation ELSE SubValue(k)

(* Mutant: the path of a sticker is stored under the key image. *)
MediaKeySlip(k) == IF k = "sticker" THEN "image" ELSE k

RECURSIVE VisitMessageKeySlip(_, _, _, _, _)
VisitMessageKeySlip(e, ex, i, body, calls) ==
  IF i > Len(MessageOrder)
  THEN [body |-> body, err |-> NoError, calls |-> calls]
  ELSE LET k == MessageOrder[i] IN
       IF k \in MediaKinds
       THEN IF k \in e.media
            THEN IF ex[k] = ExtractFail
                 THEN [body |-> Nil,
                       err |-> WebhookError("Failed to download", k),
                       calls |-> Append(calls, ExtractCall(k, ex[k]))]
                 ELSE VisitMessageKeySlip(e, ex, i + 1, Put(body, MediaKeySlip(k), Str(ex[k])),
                                          Append(calls, ExtractCall(k, ex[k])))
            ELSE VisitMessageKeySlip(e, ex, i + 1, body, calls)
       ELSE IF k \in e.subs
            THEN VisitMessageKeySlip(e, ex, i + 1, Put(body, k, SubMessage(e, k)), calls)
            ELSE VisitMessageKeySlip(e, ex, i + 1, body, calls)

(* Mutant: a medium whose extraction fails is left out of the payload  *)
(* and the build goes on.                                              *)
RECURSIVE VisitMessageSkipFailed(_, _, _, _, _)
VisitMessageSkipFailed(e, ex, i, body, calls) ==
  IF i > Len(MessageOrder)
  THEN [body |-> body, err |-> NoError, calls |-> calls]
  ELSE LET k == MessageOrder[i] IN
       IF k \in MediaKinds
       THEN IF k \in e.media
            THEN IF ex[k] = ExtractFail
                 THEN VisitMessageSkipFailed(e, ex, i + 1, body,
                                             Append(calls, ExtractCall(k, ex[k])))
                 ELSE VisitMessageSkipFailed(e, ex, i + 1, Put(body, k, Str(ex[k])),
                                             Append(calls, ExtractCall(k, ex[k])))
            ELSE VisitMessageSkipFailed(e, ex, i + 1, body, calls)
       ELSE IF k \in e.subs
            THEN VisitMessageSkipFailed(e, ex, i + 1, Put(body, k, SubMessage(e, k)), calls)
            ELSE VisitMessageSkipFailed(e, ex, i + 1, body, calls)

RECURSIVE VisitMessage(_, _, _, _, _)
VisitMessage(e, ex, i, body, calls) ==
  IF i > Len(MessageOrder)
  THEN [body |-> body, err |-> NoError, calls |-> calls]
  ELSE LET k == MessageOrder[i] IN
       IF k \in MediaKinds
       THEN IF k \in e.media
            THEN IF ex[k] = ExtractFail
                 THEN [body |-> Nil,
                       err |-> WebhookError("Failed to download", k),
                       calls |-> Append(calls, ExtractCall(k, ex[k]))]
                 ELSE VisitMessage(e, ex, i + 1, Put(body, k, Str(ex[k])),
                                   Append(calls, ExtractCall(k, ex[k])))
            ELSE VisitMessage(e, ex, i + 1, body, calls)
       ELSE IF k \in e.subs
            THEN VisitMessage(e, ex, i + 1, Put(body, k, SubMessage(e, k)), calls)
            ELSE VisitMessage(e, ex, i + 1, body, calls)

createPayload(e, ex) == VisitMessage(e, ex, 1, GatedKeys(e), <<>>)

(* Mutant: the receipt type is passed through without the switch. *)
createReceiptPayloadRawType(e) ==
  LET b0 == Put(EmptyMap, "event_type", Str("receipt"))
      b1 == Put(b0, "from", Str(e.from))
      b2 == Put(b1, "timestamp", Str(FormatRFC3339(e.ts)))
      b3 == Put(b2, "message_ids", List(e.ids))
      b4 == Put(b3, "receipt_type", Str(e.type))
  IN  [body |-> b4, err |-> NoError, calls |-> <<>>]

createReceiptPayload(e) ==
  LET b0 == Put(EmptyMap, "event_type", Str("receipt"))
      b1 == Put(b0, "from", Str(e.from))
      b2 == Put(b1, "timestamp", Str(FormatRFC3339(e.ts)))
      b3 == Put(b2, "message_ids", List(e.ids))
      b4 == IF e.type = ReceiptTypeDelivered
            THEN Put(b3, "receipt_type", Str("delivered"))
            ELSE Put(b3, "receipt_type", Str(e.type))
  IN  [body |-> b4, err |-> NoError, calls |-> <<>>]

(* Mutant: the last-seen test is not nested under evt.Unavailable. *)
createPresencePayloadLastSeenUnnested(e, now) ==
  LET b0 == Put(EmptyMap, "event_type", Str("presence"))
      b1 == Put(b0, "from", Str(e.from))
      b2 == Put(b1, "timestamp", Str(FormatRFC3339(now)))
      b3 == Put(b2, "status", Str("online"))
      b4 == IF e.unavailable THEN Put(b3, "status", Str("offline")) ELSE b3
      b5 == IF ~IsZero(e.lastSeen)
            THEN Put(b4, "last_seen", Str(FormatRFC3339(e.lastSeen)))
            ELSE b4
  IN  [body |-> b5, err |-> NoError, calls |-> <<>>]

(* Mutant: last_seen is taken from the clock instead of the event. *)
createPresencePayloadLastSeenNow(e, now) ==
  LET b0 == Put(EmptyMap, "event_type", Str("presence"))
      b1 == Put(b0, "from", Str(e.from))
      b2 == Put(b1, "timestamp", Str(FormatRFC3339(now)))
      b3 == Put(b2, "status", Str("online"))
      b4 == IF e.unavailable
            THEN LET o == Put(b3, "status", Str("offline"))
                 IN  IF ~IsZero(e.lastSeen)
                     THEN Put(o, "last_seen", Str(FormatRFC3339(now)))
                     ELSE o
            ELSE b3
  IN  [body |-> b4, err |-> NoError, calls |-> <<>>]

(* now is what time.Now() returns during the build. *)
createPresencePayload(e, now) ==
  LET b0 == Put(EmptyMap, "event_type", Str("presence"))
      b1 == Put(b0, "from", Str(e.from))
      b2 == Put(b1, "timestamp", Str(FormatRFC3339(now)))
      b3 == Put(b2, "status", Str("online"))
      b4 == IF e.unavailable
            THEN LET o == Put(b3, "status", Str("offline"))
                 IN  IF ~IsZero(e.lastSeen)
                     THEN Put(o, "last_seen", Str(FormatRFC3339(e.lastSeen)))
                     ELSE o
            ELSE b3
  IN  [body |-> b4, err |-> NoError, calls |-> <<>>]

(* Mutant: an event of another kind is skipped without an error. *)
DispatchIgnoreOthers(e, ex, now) ==
  CASE e.kind = "message" -> createPayload(e, ex)
    [] e.kind = "receipt" -> createReceiptPayload(e)
    [] e.kind = "presence" -> createPresencePayload(e, now)
    [] OTHER -> [body |-> EmptyMap, err |-> NoError, calls |-> <<>>]

(* The type switch of forwardToWebhook. *)
Dispatch(e, ex, now) ==
  CASE e.kind = "message" -> createPayload(e, ex)
    [] e.kind = "receipt" -> createReceiptPayload(e)
    [] e.kind = "presence" -> createPresencePayload(e, now)
    [] OTHER -> [body |-> Nil, err |-> UnsupportedError(e.kind), calls |-> <<>>]

(* The extractor outcomes an event can meet: one per medium it has. *)
ExtractChoices(e) ==
  IF e.kind = "message" THEN [e.media -> ExtractOutcomes] ELSE {EmptyMap}

(* ------------------------------------------------------------------ *)
(* json.Marshal of the payload map: the keys in sorted order, each     *)
(* with its value; a NaN float is an unsupported value.                *)
KeyOrder ==
  <<"audio", "contact", "document", "event_type", "forwarded", "from",
    "image", "last_seen", "list", "live_location", "location", "message",
    "message_ids", "order", "pushname", "reaction", "receipt_type",
    "status", "sticker", "timestamp", "video", "view_once">>

Marshalable(payload) == \A k \in DOMAIN payload : payload[k][1] # "unsupported"

Marshal(payload) ==
  LET IsKey(k) == k \in DOMAIN payload
      keys == SelectSeq(KeyOrder, IsKey)
  IN  [i \in 1..Len(keys) |-> <<keys[i], payload[keys[i]]>>]

(* url.Parse inside http.NewRequest *)
ParsesAsURL(url) == url # "%zz"

(* getMessageDigestOrSignature(msg, key): the hex HMAC-SHA256 of msg   *)
(* under key, a value that changes with either; fails on an empty key. *)
SignFails(key) == key = ""

getMessageDigestOrSignature(msg, key) == <<"hmac-sha256", key, msg>>

(* fmt.Sprintf("sha256=%s", signature) *)
SignatureHeader(signature) == <<"sha256=", signature>>

(* http.NewRequest(http.MethodPost, url, bytes.NewBuffer(postBody)):   *)
(* Body is the unread part of the buffer, ContentLength its length at  *)
(* construction.                                                       *)
NewRequest(url, postBody) ==
  [Method |-> "POST", URL |-> url, Body |-> postBody,
   ContentLength |-> Len(postBody), ContentType |-> "", Signature |-> Nil]

NoRequest ==
  [Method |-> "", URL |-> "", Body |-> <<>>,
   ContentLength |-> 0, ContentType |-> "", Signature |-> Nil]

(* ------------------------------------------------------------------ *)
(* client.Do(req): the transport either fails or returns a response    *)
(* with some status code; it may have read req.Body before that. A     *)
(* connection that cannot be set up fails with the body unread; a      *)
(* response, or a failure while waiting for one, comes after the body  *)
(* was read, and what was read from the buffer is gone. What the      *)
(* transport makes of a request whose body is already drained is left  *)
(* open: it may fail it (the HTTP/1 transport does, the body being     *)
(* shorter than ContentLength) or get an answer to it.                 *)
StatusCodes == {200, 404, 500}

TransportOutcomes ==
  {[err |-> TRUE, read |-> FALSE, status |-> 0],
   [err |-> TRUE, read |-> TRUE, status |-> 0]}
  \cup {[err |-> FALSE, read |-> TRUE, status |-> s] : s \in StatusCodes}

(* ------------------------------------------------------------------ *)
VARIABLES
  WhatsappWebhook,        \* config.WhatsappWebhook
  WhatsappWebhookSecret,  \* config.WhatsappWebhookSecret
  pc,                     \* where each caller stands
  evt,                    \* the event a caller forwards
  payload,                \* forwardToWebhook's payload
  ret,                    \* what forwardToWebhook returned
  urlIdx,                 \* position of the range loop over the URLs
  postBody,               \* submitWebhook's postBody
  req,                    \* submitWebhook's req
  attempt,                \* submitWebhook's attempt
  sleepDuration,          \* submitWebhook's sleepDuration
  lastStatus,             \* status of the response client.Do returned last
  extractCalls,           \* the ExtractMedia calls of a caller, in order
  nowCalls,               \* what time.Now() returned to a caller, in order
  log                     \* the client.Do and time.Sleep calls of a caller, in order

vars ==
  <<WhatsappWebhook, WhatsappWebhookSecret, pc, evt, payload, ret, urlIdx,
    postBody, req, attempt, sleepDuration, lastStatus, extractCalls, nowCalls, log>>

config == <<WhatsappWebhook, WhatsappWebhookSecret>>

NoEvent == [kind |-> "none"]

NotReturned == [type |-> "running", msg |-> "", cause |-> ""]

(* One client.Do(req): the request line and headers handed to the     *)
(* transport, and whether it returned an error.                        *)
DoEntry(ep, r, out) ==
  [call |-> "Do", ep |-> ep, Method |-> r.Method, URL |-> r.URL,
   ContentType |-> r.ContentType, Signature |-> r.Signature,
   ContentLength |-> r.ContentLength,
   err |-> out.err, d |-> 0]

(* One time.Sleep(d). *)
SleepEntry(ep, d) ==
  [call |-> "Sleep", ep |-> ep, Method |-> "", URL |-> "",
   ContentType |-> "", Signature |-> Nil,
   ContentLength |-> 0,
   err |-> FALSE, d |-> d]

Init ==
  /\ WhatsappWebhook \in EndpointLists
  /\ WhatsappWebhookSecret \in Secrets
  /\ pc = [c \in Callers |-> "idle"]
  /\ evt = [c \in Callers |-> NoEvent]
  /\ payload = [c \in Callers |-> Nil]
  /\ ret = [c \in Callers |-> NotReturned]
  /\ urlIdx = [c \in Callers |-> 0]
  /\ postBody = [c \in Callers |-> <<>>]
  /\ req = [c \in Callers |-> NoRequest]
  /\ attempt = [c \in Callers |-> 0]
  /\ sleepDuration = [c \in Callers |-> 0]
  /\ lastStatus = [c \in Callers |-> 0]
  /\ extractCalls = [c \in Callers |-> <<>>]
  /\ nowCalls = [c \in Callers |-> <<>>]
  /\ log = [c \in Callers |-> <<>>]

(* forwardToWebhook up to the range loop: the type switch, the build,  *)
(* the return on a build error; with no URL configured the loop body   *)
(* never runs and the call returns nil.                                *)
(* Mutant: an empty URL list ends the call with nil before the build  *)
(* error is looked at.                                                 *)
ForwardResultEmptyListFirst(built, urls) ==
  IF Len(urls) = 0
  THEN [pc |-> "done", ret |-> NoError, payload |-> built.body, urlIdx |-> 0]
  ELSE IF built.err # NoError
       THEN [pc |-> "done", ret |-> built.err, payload |-> Nil, urlIdx |-> 0]
       ELSE [pc |-> "submit", ret |-> NotReturned, payload |-> built.body, urlIdx |-> 1]

ForwardResult(built, urls) ==
  IF built.err # NoError
  THEN [pc |-> "done", ret |-> built.err, payload |-> Nil, urlIdx |-> 0]
  ELSE IF Len(urls) = 0
       THEN [pc |-> "done", ret |-> NoError, payload |-> built.body, urlIdx |-> 0]
       ELSE [pc |-> "submit", ret |-> NotReturned, payload |-> built.body, urlIdx |-> 1]

(* The time.Now() calls of a build: createPresencePayload makes one,   *)
(* the other builders none.                                            *)
NowCalls(e, now) == IF e.kind = "presence" THEN <<now>> ELSE <<>>

(* One forwardToWebhook(evt) call of caller c for an event of events. *)
ForwardOf(c, events) ==
  /\ pc[c] = "idle"
  /\ \E e \in events, now \in NowTimes :
       \E ex \in ExtractChoices(e) :
         LET built == Dispatch(e, ex, now)
             r == ForwardResult(built, WhatsappWebhook)
         IN  /\ evt' = [evt EXCEPT ![c] = e]
             /\ extractCalls' = [extractCalls EXCEPT ![c] = built.calls]
             /\ nowCalls' = [nowCalls EXCEPT ![c] = NowCalls(e, now)]
             /\ payload' = [payload EXCEPT ![c] = r.payload]
             /\ ret' = [ret EXCEPT ![c] = r.ret]
             /\ pc' = [pc EXCEPT ![c] = r.pc]
             /\ urlIdx' = [urlIdx EXCEPT ![c] = r.urlIdx]
  /\ UNCHANGED <<config, postBody, req, attempt, sleepDuration, lastStatus, log>>

Forward(c) == ForwardOf(c, ForwardEvents)

(* Mutant: the loop goes on to the next URL after a failure and the   *)
(* call reports the failure of the last URL only.                      *)
AfterFailureContinue(i, urls, err) ==
  IF i < Len(urls)
  THEN [pc |-> "submit", ret |-> [type |-> "running", msg |-> "", cause |-> ""], urlIdx |-> i + 1]
  ELSE [pc |-> "done", ret |-> err, urlIdx |-> i]

(* What the range loop of forwardToWebhook does when submitWebhook     *)
(* returned err for the URL at position i: it returns err.             *)
AfterFailure(i, urls, err) == [pc |-> "done", ret |-> err, urlIdx |-> i]

(* Mutant: the error of json.Marshal is dropped and the request is     *)
(* built around the empty body.                                        *)
SubmitBeginIgnoreMarshalError(p, url, secretKey) ==
  LET b == IF Marshalable(p) THEN Marshal(p) ELSE <<>>
  IN  IF ~ParsesAsURL(url)
      THEN [err |-> WebhookError("error when create http object", "url"),
            postBody |-> b, req |-> NoRequest]
      ELSE IF SignFails(secretKey)
           THEN [err |-> WebhookError("error when create signature", "key"),
                 postBody |-> b, req |-> NewRequest(url, b)]
           ELSE [err |-> NoError,
                 postBody |-> b,
                 req |-> [NewRequest(url, b) EXCEPT
                            !.ContentType = "application/json",
                            !.Signature = SignatureHeader(
                                getMessageDigestOrSignature(b, secretKey))]]

(* Mutant: attempt and sleepDuration declared at package level, one   *)
(* value shared by every caller.                                       *)
PackageVar(f, c, v) == [x \in DOMAIN f |-> v]

(* var attempt int, var sleepDuration: locals of one submitWebhook     *)
(* call; an assignment reaches the caller's own copy only.             *)
LocalVar(f, c, v) == [f EXCEPT ![c] = v]

(* submitWebhook from its entry to the head of the retry loop. *)
SubmitBegin(p, url, secretKey) ==
  IF ~Marshalable(p)
  THEN [err |-> WebhookError("Failed to marshal body", "json"),
        postBody |-> <<>>, req |-> NoRequest]
  ELSE IF ~ParsesAsURL(url)
       THEN [err |-> WebhookError("error when create http object", "url"),
             postBody |-> Marshal(p), req |-> NoRequest]
       ELSE IF SignFails(secretKey)
            THEN [err |-> WebhookError("error when create signature", "key"),
                  postBody |-> Marshal(p), req |-> NewRequest(url, Marshal(p))]
            ELSE [err |-> NoError,
                  postBody |-> Marshal(p),
                  req |-> [NewRequest(url, Marshal(p)) EXCEPT
                             !.ContentType = "application/json",
                             !.Signature = SignatureHeader(
                                 getMessageDigestOrSignature(Marshal(p), secretKey))]]

Submit(c) ==
  /\ pc[c] = "submit"
  /\ LET s == SubmitBegin(payload[c], WhatsappWebhook[urlIdx[c]], WhatsappWebhookSecret)
     IN  /\ postBody' = [postBody EXCEPT ![c] = s.postBody]
         /\ req' = [req EXCEPT ![c] = s.req]
         /\ IF s.err # NoError
            THEN LET n == AfterFailure(urlIdx[c], WhatsappWebhook, s.err)
                 IN  /\ ret' = [ret EXCEPT ![c] = n.ret]
                     /\ pc' = [pc EXCEPT ![c] = n.pc]
                     /\ urlIdx' = [urlIdx EXCEPT ![c] = n.urlIdx]
                     /\ UNCHANGED <<attempt, sleepDuration>>
            ELSE /\ attempt' = LocalVar(attempt, c, 0)
                 /\ sleepDuration' = LocalVar(sleepDuration, c, InitialSleepDuration)
                 /\ pc' = [pc EXCEPT ![c] = "attempting"]
                 /\ UNCHANGED <<ret, urlIdx>>
  /\ lastStatus' = [lastStatus EXCEPT ![c] = 0]
  /\ UNCHANGED <<config, evt, payload, extractCalls, nowCalls, log>>

(* What the range loop of forwardToWebhook does when submitWebhook     *)
(* returned nil for the URL at position i.                             *)
AfterSuccess(i, urls) ==
  IF i < Len(urls)
  THEN [pc |-> "submit", ret |-> NotReturned, urlIdx |-> i + 1]
  ELSE [pc |-> "done", ret |-> NoError, urlIdx |-> i]

(* What client.Do leaves of the request body. *)
BodyAfter(body, out) == IF out.read THEN <<>> ELSE body

(* Mutant: a response counts as delivered only with a 2xx status. *)
SucceededOn2xx(out) == ~out.err /\ out.status < 300

(* Mutant: the test on err inverted (err != nil). *)
SucceededInverted(out) == out.err

(* if _, err = client.Do(req); err == nil *)
Succeeded(out) == ~out.err

(* Mutant: the loop bound off by one (attempt <= maxAttempts). *)
LoopContinuesOffByOne(a) == a <= maxAttempts

(* attempt < maxAttempts *)
LoopContinues(a) == a < maxAttempts

(* Mutant: the duration grows by a second instead of doubling. *)
DoubledByAdding(d) == d + 1

(* sleepDuration *= 2 *)
Doubled(d) == d * 2

(* One client.Do(req) of the retry loop. *)
Do(c) ==
  /\ pc[c] = "attempting"
  /\ LoopContinues(attempt[c])
  /\ \E out \in TransportOutcomes :
       /\ log' = [log EXCEPT ![c] = Append(@, DoEntry(urlIdx[c], req[c], out))]
       /\ req' = [req EXCEPT ![c].Body = BodyAfter(@, out)]
       /\ lastStatus' = [lastStatus EXCEPT ![c] = out.status]
       /\ IF Succeeded(out)
          THEN LET n == AfterSuccess(urlIdx[c], WhatsappWebhook)
               IN  /\ pc' = [pc EXCEPT ![c] = n.pc]
                   /\ ret' = [ret EXCEPT ![c] = n.ret]
                   /\ urlIdx' = [urlIdx EXCEPT ![c] = n.urlIdx]
          ELSE /\ pc' = [pc EXCEPT ![c] = "sleeping"]
               /\ UNCHANGED <<ret, urlIdx>>
  /\ UNCHANGED <<config, evt, payload, postBody, attempt, sleepDuration, extractCalls, nowCalls>>

(* Mutant: the loop never counts the attempt (attempt++ missing). *)
AfterSleepNoIncrement(a, d) ==
  IF LoopContinues(a)
  THEN [pc |-> "attempting", attempt |-> a, sleepDuration |-> Doubled(d),
        err |-> NoError]
  ELSE [pc |-> "return", attempt |-> a, sleepDuration |-> Doubled(d),
        err |-> WebhookError("error when submit webhook after attempts", a)]

(* After a failed client.Do: time.Sleep(sleepDuration), the doubling,  *)
(* attempt++ and the loop condition; past the last attempt the error   *)
(* return of submitWebhook, which forwardToWebhook returns at once.    *)
AfterSleep(a, d) ==
  IF LoopContinues(a + 1)
  THEN [pc |-> "attempting", attempt |-> a + 1, sleepDuration |-> Doubled(d),
        err |-> NoError]
  ELSE [pc |-> "return", attempt |-> a + 1, sleepDuration |-> Doubled(d),
        err |-> WebhookError("error when submit webhook after attempts", a + 1)]

Sleep(c) ==
  /\ pc[c] = "sleeping"
  /\ LET s == AfterSleep(attempt[c], sleepDuration[c])
         n == AfterFailure(urlIdx[c], WhatsappWebhook, s.err)
     IN  /\ log' = [log EXCEPT ![c] = Append(@, SleepEntry(urlIdx[c], sleepDuration[c]))]
         /\ attempt' = LocalVar(attempt, c, s.attempt)
         /\ sleepDuration' = LocalVar(sleepDuration, c, s.sleepDuration)
         /\ IF s.pc = "attempting"
            THEN /\ pc' = [pc EXCEPT ![c] = "attempting"]
                 /\ UNCHANGED <<ret, urlIdx>>
            ELSE /\ pc' = [pc EXCEPT ![c] = n.pc]
                 /\ ret' = [ret EXCEPT ![c] = n.ret]
                 /\ urlIdx' = [urlIdx EXCEPT ![c] = n.urlIdx]
  /\ UNCHANGED <<config, evt, payload, postBody, req, lastStatus, extractCalls, nowCalls>>

Next ==
  \E c \in MainCallers :
    \/ Forward(c)
    \/ Submit(c)
    \/ Do(c)
    \/ Sleep(c)

Spec == Init /\ [][Next]_vars

(* A call that entered the range loop keeps running: json.Marshal,     *)
(* http.NewRequest and the signature return, client.Do returns within  *)
(* the client's 10 s timeout, and time.Sleep returns.                   *)
Fairness ==
  \A c \in MainCallers :
    /\ WF_vars(Submit(c))
    /\ WF_vars(Do(c))
    /\ WF_vars(Sleep(c))

FairSpec == Spec /\ Fairness

(* ------------------------------------------------------------------ *)
(* The payload builders on their own: one event, built once by each    *)
(* caller of Callers, each build with the clock reading and the        *)
(* extractor outcomes it meets.                                        *)

MaxMedia == 2

MediaSets == {m \in SUBSET MediaKinds : Cardinality(m) <= MaxMedia}

BuildEvents ==
  { MessageEvent(from, text, pushname, reaction, viewOnce, forwarded, ts, {}, subs, FALSE) :
      from \in {"", "123@s"}, text \in {"", "hello"}, pushname \in {"", "bob"},
      reaction \in {"", "+1"}, viewOnce \in BOOLEAN, forwarded \in BOOLEAN,
      ts \in {0, 1}, subs \in {{}, {"contact"}, SubKinds} }
  \cup { MessageEvent("123@s", "hello", "", "", FALSE, FALSE, 1, m, subs, FALSE) :
            m \in MediaSets, subs \in {{}, {"list"}} }
  \cup { ReceiptEvent(from, ts, ids, type) :
            from \in {"", "123@s"}, ts \in {0, 1},
            ids \in {<<>>, <<"m1", "m2">>}, type \in ReceiptTypes }
  \cup { PresenceEvent(from, unavailable, lastSeen) :
            from \in {"", "123@s"}, unavailable \in BOOLEAN, lastSeen \in Times }

(* Every caller holds the same event, not yet built. *)
InitBuild ==
  /\ WhatsappWebhook = <<>>
  /\ WhatsappWebhookSecret = ""
  /\ pc = [c \in Callers |-> "idle"]
  /\ \E e \in BuildEvents : evt = [c \in Callers |-> e]
  /\ payload = [c \in Callers |-> Nil]
  /\ ret = [c \in Callers |-> NotReturned]
  /\ urlIdx = [c \in Callers |-> 0]
  /\ postBody = [c \in Callers |-> <<>>]
  /\ req = [c \in Callers |-> NoRequest]
  /\ attempt = [c \in Callers |-> 0]
  /\ sleepDuration = [c \in Callers |-> 0]
  /\ lastStatus = [c \in Callers |-> 0]
  /\ extractCalls = [c \in Callers |-> <<>>]
  /\ nowCalls = [c \in Callers |-> <<>>]
  /\ log = [c \in Callers |-> <<>>]

(* One call of createPayload, createReceiptPayload or                  *)
(* createPresencePayload by caller c.                                  *)
Build(c) ==
  /\ pc[c] = "idle"
  /\ \E now \in NowTimes : \E ex \in ExtractChoices(evt[c]) :
       LET built == Dispatch(evt[c], ex, now)
       IN  /\ payload' = [payload EXCEPT ![c] = built.body]
           /\ ret' = [ret EXCEPT ![c] = built.err]
           /\ extractCalls' = [extractCalls EXCEPT ![c] = built.calls]
           /\ nowCalls' = [nowCalls EXCEPT ![c] = NowCalls(evt[c], now)]
           /\ pc' = [pc EXCEPT ![c] = "built"]
  /\ UNCHANGED <<config, evt, urlIdx, postBody, req, attempt, sleepDuration,
                 lastStatus, log>>

NextBuild == \E c \in Callers : Build(c)

SpecBuild == InitBuild /\ [][NextBuild]_vars

(* ------------------------------------------------------------------ *)
(* Concurrent callers: every caller of Callers runs forwardToWebhook   *)
(* for an event of its own, the steps of the calls interleaved in any  *)
(* order, against one configuration.                                   *)

ConcEndpointLists == {<<"http://a">>, <<"http://a", "http://b">>}

ConcEvents ==
  { MessageEvent("123@s", "hello", "", "", FALSE, FALSE, 1, {}, {}, FALSE),
    ReceiptEvent("123@s", 1, <<"m1", "m2">>, ReceiptTypeDelivered) }

(* The events no other caller is forwarding. *)
EventsOfOthers(c) == {evt[d] : d \in Callers \ {c}}

InitConc ==
  /\ Init
  /\ WhatsappWebhook \in ConcEndpointLists
  /\ WhatsappWebhookSecret = "s3cret"

NextConc ==
  \E c \in Callers :
    \/ ForwardOf(c, ConcEvents \ EventsOfOthers(c))
    \/ Submit(c)
    \/ Do(c)
    \/ Sleep(c)

SpecConc == InitConc /\ [][NextConc]_vars

(* ------------------------------------------------------------------ *)
(* Reading the log of a caller.                                        *)

(* The calls made for the URL at position i, in order. *)
EpLog(c, i) == SelectSeq(log[c], LAMBDA x : x.ep = i)

(* The client.Do calls made for the URL at position i. *)
DoCalls(c, i) == SelectSeq(log[c], LAMBDA x : x.ep = i /\ x.call = "Do")

(* The time.Sleep calls made for the URL at position i. *)
SleepCalls(c, i) == SelectSeq(log[c], LAMBDA x : x.ep = i /\ x.call = "Sleep")

(* Their durations. *)
Waits(c, i) == [j \in 1..Len(SleepCalls(c, i)) |-> SleepCalls(c, i)[j].d]

Endpoints == 1..Len(WhatsappWebhook)

(* Every client.Do made for the URL at position i returned an error. *)
AlwaysErrored(c, i) == \A j \in 1..Len(DoCalls(c, i)) : DoCalls(c, i)[j].err

(* submitWebhook gave up on the URL at position i. *)
Exhausted(c, i) ==
  /\ pc[c] = "done"
  /\ urlIdx[c] = i
  /\ ret[c].type = "WebhookError"
  /\ ret[c].msg = "error when submit webhook after attempts"

(* submitWebhook returned nil for the URL at position i. *)
Delivered(c, i) ==
  \/ urlIdx[c] > i
  \/ urlIdx[c] = i /\ pc[c] = "done" /\ ret[c] = NoError

RECURSIVE Pow2(_)
Pow2(n) == IF n = 0 THEN 1 ELSE 2 * Pow2(n - 1)

(* ------------------------------------------------------------------ *)
(* C1: a delivery whose transport returned an error on every attempt   *)
(* and that gave up made exactly 5 attempts and exactly 4 waits, of    *)
(* 1, 2, 4, 8 seconds, one between each two consecutive attempts.      *)
C1_FiveAttemptsFourWaits ==
  \A c \in Callers : \A i \in Endpoints :
    Exhausted(c, i) /\ AlwaysErrored(c, i) =>
      /\ Len(DoCalls(c, i)) = 5
      /\ Waits(c, i) = <<1, 2, 4, 8>>
      /\ EpLog(c, i)[Len(EpLog(c, i))].call = "Do"

(* ------------------------------------------------------------------ *)
(* C2: the URLs are served in list order. The log never goes back to   *)
(* an earlier URL, the first call for the URL at i + 1 comes right     *)
(* after a client.Do for the URL at i that returned no error, and once *)
(* a delivery failed the call has returned that failure: nothing is    *)
(* logged for a later URL and no step of the call is left to take.     *)
C2_ListOrderStopAtFirstFailure ==
  \A c \in Callers :
    /\ \A p \in 1..Len(log[c]) :
         /\ log[c][p].ep \in Endpoints
         /\ log[c][p].ep <= urlIdx[c]
         /\ log[c][p].URL = IF log[c][p].call = "Do" THEN WhatsappWebhook[log[c][p].ep] ELSE ""
         /\ p = 1 => log[c][p].ep = 1
         /\ p > 1 =>
              \/ log[c][p].ep = log[c][p - 1].ep
              \/ /\ log[c][p].ep = log[c][p - 1].ep + 1
                 /\ log[c][p - 1].call = "Do"
                 /\ ~log[c][p - 1].err
    /\ \A i \in Endpoints : i < urlIdx[c] =>
         /\ Len(DoCalls(c, i)) >= 1
         /\ ~DoCalls(c, i)[Len(DoCalls(c, i))].err
    /\ ret[c].type = "WebhookError" =>
         /\ pc[c] = "done"
         /\ \A p \in 1..Len(log[c]) : log[c][p].ep <= urlIdx[c]
         /\ ~ENABLED (Submit(c) \/ Do(c) \/ Sleep(c))

(* A call that failed on the first of two URLs: the second was never   *)
(* contacted.                                                          *)
C2_Witness ==
  /\ Len(WhatsappWebhook) = 2
  /\ Exhausted("c1", 1)
  /\ Len(DoCalls("c1", 1)) = 5
  /\ DoCalls("c1", 2) = <<>>

(* ------------------------------------------------------------------ *)
(* C3: whatever the status code of the response, a client.Do that      *)
(* returns no error ends the delivery with success: it is the last     *)
(* call made for its URL, no sleep follows it, and the call goes on to *)
(* the next URL or returns nil after the last. A sleep, and so a       *)
(* retry, only ever follows a client.Do that returned an error.        *)
C3_AnyStatusSucceeds ==
  \A c \in Callers :
    /\ lastStatus[c] \in StatusCodes =>
         /\ Len(log[c]) >= 1
         /\ log[c][Len(log[c])].call = "Do"
         /\ ~log[c][Len(log[c])].err
         /\ \/ pc[c] = "submit" /\ urlIdx[c] = log[c][Len(log[c])].ep + 1
            \/ /\ pc[c] = "done"
               /\ ret[c] = NoError
               /\ log[c][Len(log[c])].ep = Len(WhatsappWebhook)
    /\ \A p \in 1..Len(log[c]) :
         /\ (log[c][p].call = "Do" /\ ~log[c][p].err) =>
              /\ Delivered(c, log[c][p].ep)
              /\ \A q \in (p + 1)..Len(log[c]) : log[c][q].ep # log[c][p].ep
         /\ log[c][p].call = "Sleep" =>
              /\ p > 1
              /\ log[c][p - 1].call = "Do"
              /\ log[c][p - 1].err
              /\ log[c][p - 1].ep = log[c][p].ep
         /\ (log[c][p].call = "Do" /\ p > 1 /\ log[c][p - 1].ep = log[c][p].ep) =>
              log[c][p - 1].call = "Sleep"

(* A 500 response to the first attempt for the first of two URLs: the  *)
(* call is about to submit to the second.                              *)
C3_Witness ==
  /\ lastStatus["c1"] = 500
  /\ Len(log["c1"]) = 1
  /\ pc["c1"] = "submit"
  /\ urlIdx["c1"] = 2

(* ------------------------------------------------------------------ *)
(* C4: when the k-th client.Do for a URL is the one that returns no    *)
(* error, k is in 1..5, the k - 1 before it each returned an error and *)
(* were each followed by one sleep (of 1, 2, 4, ... seconds), nothing  *)
(* follows the k-th, and the delivery returned success.                *)
C4_SuccessOnKthAttempt ==
  \A c \in Callers : \A i \in Endpoints :
    \A k \in 1..Len(DoCalls(c, i)) :
      ~DoCalls(c, i)[k].err =>
        /\ k <= 5
        /\ Len(DoCalls(c, i)) = k
        /\ Len(SleepCalls(c, i)) = k - 1
        /\ Len(EpLog(c, i)) = 2 * k - 1
        /\ \A j \in 1..(k - 1) :
             /\ EpLog(c, i)[2 * j - 1].call = "Do"
             /\ EpLog(c, i)[2 * j - 1].err
             /\ EpLog(c, i)[2 * j].call = "Sleep"
             /\ EpLog(c, i)[2 * j].d = Pow2(j - 1)
        /\ EpLog(c, i)[2 * k - 1].call = "Do"
        /\ Delivered(c, i)

(* Success on the third attempt for the first URL and on the fifth for *)
(* the second.                                                         *)
C4_Witness ==
  /\ Len(WhatsappWebhook) = 2
  /\ pc["c1"] = "done"
  /\ ret["c1"] = NoError
  /\ Len(DoCalls("c1", 1)) = 3
  /\ Waits("c1", 1) = <<1, 2>>
  /\ Len(DoCalls("c1", 2)) = 5
  /\ Waits("c1", 2) = <<1, 2, 4, 8>>

(* ------------------------------------------------------------------ *)
(* C5: every client.Do that returned an error is followed by a sleep   *)
(* of the current sleepDuration, which starts at 1 and doubles after   *)
(* each sleep: the sleep after the j-th failed attempt lasts 2^(j-1),  *)
(* and a delivery that failed on every attempt slept 1, 2, 4, 8, 16,   *)
(* the last time after its fifth attempt.                              *)
C5_BackoffDoubles ==
  \A c \in Callers :
    /\ pc[c] \in {"attempting", "sleeping"} => sleepDuration[c] = Pow2(attempt[c])
    /\ \A i \in Endpoints : \A j \in 1..Len(DoCalls(c, i)) :
         DoCalls(c, i)[j].err =>
           \/ /\ Len(SleepCalls(c, i)) >= j
              /\ SleepCalls(c, i)[j].d = Pow2(j - 1)
              /\ EpLog(c, i)[2 * j].call = "Sleep"
           \/ /\ Len(SleepCalls(c, i)) = j - 1
              /\ Len(DoCalls(c, i)) = j
              /\ urlIdx[c] = i
              /\ pc[c] = "sleeping"
              /\ sleepDuration[c] = Pow2(j - 1)
    /\ \A i \in Endpoints :
         Exhausted(c, i) /\ AlwaysErrored(c, i) =>
           /\ Waits(c, i) = <<1, 2, 4, 8, 16>>
           /\ EpLog(c, i)[Len(EpLog(c, i))].call = "Sleep"

(* A delivery that gave up after five failed attempts and five sleeps. *)
C5_Witness ==
  /\ Exhausted("c1", 1)
  /\ Len(DoCalls("c1", 1)) = 5
  /\ AlwaysErrored("c1", 1)
  /\ Waits("c1", 1) = <<1, 2, 4, 8, 16>>

(* ------------------------------------------------------------------ *)
(* C6: a URL for which client.Do returned no error gets no further     *)
(* client.Do in the same call; with two URLs, the first answering the  *)
(* first attempt and the second failing every attempt, the call ends   *)
(* with the give-up error of the second URL after 5 attempts, the      *)
(* first URL having got exactly one client.Do and the second five.     *)
C6_OneRequestThenExhausted ==
  \A c \in Callers :
    /\ \A i \in Endpoints : \A k \in 1..Len(DoCalls(c, i)) :
         ~DoCalls(c, i)[k].err => k = Len(DoCalls(c, i))
    /\ ( /\ Len(WhatsappWebhook) = 2
         /\ pc[c] = "done"
         /\ Len(DoCalls(c, 1)) >= 1
         /\ ~DoCalls(c, 1)[1].err
         /\ Len(DoCalls(c, 2)) >= 1
         /\ AlwaysErrored(c, 2) ) =>
           /\ Exhausted(c, 2)
           /\ ret[c].cause = 5
           /\ Len(DoCalls(c, 1)) = 1
           /\ SleepCalls(c, 1) = <<>>
           /\ Len(DoCalls(c, 2)) = 5
           /\ DoCalls(c, 2)[1].URL = WhatsappWebhook[2]

(* The message "hello" from 123@s without media, forwarded to two URLs *)
(* of which the first answers at once and the second never does.       *)
C6_Witness ==
  /\ WhatsappWebhook = <<"http://a", "http://b">>
  /\ evt["c1"] = MessageEvent("123@s", "hello", "", "", FALSE, FALSE, 1, {}, {}, FALSE)
  /\ pc["c1"] = "done"
  /\ Exhausted("c1", 2)
  /\ Len(DoCalls("c1", 1)) = 1
  /\ ~DoCalls("c1", 1)[1].err
  /\ Len(DoCalls("c1", 2)) = 5
  /\ AlwaysErrored("c1", 2)

(* ------------------------------------------------------------------ *)
(* C7: an event of a kind the type switch has no case for makes the    *)
(* call return the unsupported-event error, never nil, with no payload *)
(* built, no ExtractMedia call and no client.Do or sleep, whatever the *)
(* list of URLs.                                                       *)
C7_UnsupportedEventFails ==
  \A c \in Callers :
    evt[c].kind \notin SupportedKinds \cup {"none"} =>
      /\ pc[c] = "done"
      /\ ret[c] = UnsupportedError(evt[c].kind)
      /\ ret[c] # NoError
      /\ payload[c] = Nil
      /\ extractCalls[c] = <<>>
      /\ log[c] = <<>>
      /\ urlIdx[c] = 0

(* A call offer forwarded with two URLs configured. *)
C7_Witness ==
  /\ evt["c1"].kind = "call_offer"
  /\ Len(WhatsappWebhook) = 2
  /\ ParsesAsURL(WhatsappWebhook[1])
  /\ ~SignFails(WhatsappWebhookSecret)
  /\ pc["c1"] = "done"

(* ------------------------------------------------------------------ *)
(* C8: when ExtractMedia fails for a medium of a message event, the    *)
(* build stops there and returns the download error of that medium and *)
(* no payload, and the call returns it without any client.Do.          *)
C8_FailedExtractionAborts ==
  \A c \in Callers : \A j \in 1..Len(extractCalls[c]) :
    extractCalls[c][j].result = ExtractFail =>
      /\ evt[c].kind = "message"
      /\ extractCalls[c][j].kind \in evt[c].media
      /\ j = Len(extractCalls[c])
      /\ pc[c] = "done"
      /\ ret[c] = WebhookError("Failed to download", extractCalls[c][j].kind)
      /\ payload[c] = Nil
      /\ log[c] = <<>>
      /\ urlIdx[c] = 0

(* An event with audio and video whose audio is extracted and whose    *)
(* video is not, with a URL configured.                                *)
C8_Witness ==
  /\ evt["c1"].kind = "message"
  /\ evt["c1"].media = {"audio", "video"}
  /\ Len(extractCalls["c1"]) = 2
  /\ extractCalls["c1"][1].result \in ExtractedPaths
  /\ extractCalls["c1"][2].result = ExtractFail
  /\ Len(WhatsappWebhook) >= 1
  /\ ParsesAsURL(WhatsappWebhook[1])
  /\ ~SignFails(WhatsappWebhookSecret)
  /\ pc["c1"] = "done"

(* ------------------------------------------------------------------ *)
(* C9: when json.Marshal, http.NewRequest or the signature fails for   *)
(* the URL at position i, submitWebhook returns the error of the first *)
(* of these that fails, and no client.Do and no sleep is made for that *)
(* URL.                                                                *)
DeliveryBegun(c, i) == urlIdx[c] > i \/ (urlIdx[c] = i /\ pc[c] # "submit")

PreflightError(p, url, secretKey) ==
  IF ~Marshalable(p) THEN WebhookError("Failed to marshal body", "json")
  ELSE IF ~ParsesAsURL(url) THEN WebhookError("error when create http object", "url")
  ELSE IF SignFails(secretKey) THEN WebhookError("error when create signature", "key")
  ELSE NoError

C9_PreflightFailureNoAttempt ==
  \A c \in Callers : \A i \in Endpoints :
    ( /\ DeliveryBegun(c, i)
      /\ PreflightError(payload[c], WhatsappWebhook[i], WhatsappWebhookSecret) # NoError ) =>
        /\ pc[c] = "done"
        /\ urlIdx[c] = i
        /\ ret[c] = PreflightError(payload[c], WhatsappWebhook[i], WhatsappWebhookSecret)
        /\ EpLog(c, i) = <<>>
        /\ \A p \in 1..Len(log[c]) : log[c][p].ep < i

(* http.NewRequest fails for the second URL after the first was served. *)
C9_Witness ==
  /\ Len(WhatsappWebhook) = 2
  /\ ~ParsesAsURL(WhatsappWebhook[2])
  /\ Len(DoCalls("c1", 1)) >= 1
  /\ pc["c1"] = "done"
  /\ urlIdx["c1"] = 2
  /\ ret["c1"] = WebhookError("error when create http object", "url")

(* ------------------------------------------------------------------ *)
(* C10: whenever client.Do is about to be called, on the first attempt *)
(* and on every retry, req is a POST to the URL, its body holds the    *)
(* whole marshalled payload, and its X-Hub-Signature-256 header is     *)
(* sha256= followed by the signature of the bytes the body holds.      *)
C10_EveryRequestCarriesSignedPayload ==
  \A c \in Callers :
    pc[c] = "attempting" =>
      /\ req[c].Method = "POST"
      /\ req[c].URL = WhatsappWebhook[urlIdx[c]]
      /\ req[c].ContentType = "application/json"
      /\ req[c].Body = Marshal(payload[c])
      /\ req[c].Signature =
           SignatureHeader(getMessageDigestOrSignature(req[c].Body, WhatsappWebhookSecret))

(* ------------------------------------------------------------------ *)
(* C11: with every client.Do returning, a delivery that started for    *)
(* the URL at position i ends in success or in the give-up error, a    *)
(* call that entered the range loop returns, no URL gets more than 5   *)
(* client.Do and a call over n URLs makes no more than 5 * n.          *)
AllDoCalls(c) == SelectSeq(log[c], LAMBDA x : x.call = "Do")

Running(c) == pc[c] \in {"submit", "attempting", "sleeping"}

AttemptsBounded ==
  \A c \in Callers :
    /\ \A i \in Endpoints : Len(DoCalls(c, i)) <= 5
    /\ Len(AllDoCalls(c)) <= 5 * Len(WhatsappWebhook)
    /\ attempt[c] <= 5

(* Once the call is over, every delivery that made an attempt has      *)
(* ended in success or in the give-up error.                           *)
StartedDeliveriesEnded ==
  \A c \in Callers : \A i \in Endpoints :
    (DoCalls(c, i) # <<>> /\ (pc[c] = "done" \/ urlIdx[c] > i)) =>
      (Delivered(c, i) \/ Exhausted(c, i))

C11_DeliveryTerminates ==
  /\ []AttemptsBounded
  /\ []StartedDeliveriesEnded
  /\ \A c \in MainCallers : Running(c) ~> pc[c] = "done"

(* A call over two URLs that returned after the most attempts it can   *)
(* make: success on the fifth for the first, five failures for the     *)
(* second.                                                             *)
C11_Witness ==
  /\ Len(WhatsappWebhook) = 2
  /\ pc["c1"] = "done"
  /\ Exhausted("c1", 2)
  /\ Len(AllDoCalls("c1")) = 10

(* ------------------------------------------------------------------ *)
(* C12: forward calls for different events that run concurrently, in   *)
(* any interleaving, share no mutable state. Every step of one call    *)
(* leaves the position, event, payload, result, request, attempt       *)
(* counter, backoff duration and call log of every other call as they  *)
(* were, and never writes the endpoint list or the secret. So each     *)
(* call counts its own attempts (attempt is the number of waits it     *)
(* made for its current endpoint, the backoff is 2^attempt), makes at  *)
(* most 5 attempts per endpoint with the waits 1, 2, 4, ..., and ends  *)
(* as its own transport outcomes say: nil when each endpoint answered, *)
(* the give-up error when its last endpoint failed 5 times.            *)

(* What caller c holds. *)
CallState(c) ==
  <<pc[c], evt[c], payload[c], ret[c], urlIdx[c], postBody[c], req[c],
    attempt[c], sleepDuration[c], lastStatus[c], extractCalls[c],
    nowCalls[c], log[c]>>

(* A step is the step of one call: the other calls keep what they hold *)
(* and the configuration is not written.                               *)
StepOfOneCall ==
  /\ \E c \in Callers : \A d \in Callers \ {c} : CallState(d)' = CallState(d)
  /\ config' = config

OwnAttemptState ==
  \A c \in Callers :
    /\ pc[c] \in {"attempting", "sleeping"} =>
         /\ attempt[c] = Len(SleepCalls(c, urlIdx[c]))
         /\ sleepDuration[c] = Pow2(attempt[c])
         /\ Len(DoCalls(c, urlIdx[c])) =
              attempt[c] + (IF pc[c] = "sleeping" THEN 1 ELSE 0)
    /\ \A i \in Endpoints :
         /\ Len(DoCalls(c, i)) <= 5
         /\ \A j \in 1..Len(Waits(c, i)) : Waits(c, i)[j] = Pow2(j - 1)

(* The client.Do calls for the URL at position i failed up to the last *)
(* one, which was answered.                                            *)
AnsweredAtLast(c, i) ==
  LET d == DoCalls(c, i)
  IN  /\ d # <<>>
      /\ ~d[Len(d)].err
      /\ \A j \in 1..(Len(d) - 1) : d[j].err

OwnOutcome ==
  \A c \in Callers :
    pc[c] = "done" =>
      /\ ret[c] = NoError <=> \A i \in Endpoints : AnsweredAtLast(c, i)
      /\ ret[c] # NoError =>
           /\ Exhausted(c, urlIdx[c])
           /\ Len(DoCalls(c, urlIdx[c])) = 5
           /\ AlwaysErrored(c, urlIdx[c])
           /\ \A i \in 1..(urlIdx[c] - 1) : AnsweredAtLast(c, i)
           /\ \A i \in Endpoints : i > urlIdx[c] => EpLog(c, i) = <<>>

C12_ConcurrentCallsIndependent ==
  /\ [](OwnAttemptState /\ OwnOutcome)
  /\ [][StepOfOneCall]_vars

(* Two calls in flight for different events, each at its own point of  *)
(* its own retry loop.                                                 *)
C12_Witness ==
  /\ evt["c1"] # evt["c2"]
  /\ pc["c1"] = "sleeping" /\ attempt["c1"] = 3
  /\ pc["c2"] = "attempting" /\ attempt["c2"] = 1 /\ urlIdx["c2"] = 2

(* ------------------------------------------------------------------ *)
(* Reading two builds of one event.                                    *)

Built(c) == pc[c] = "built"

BothBuilt == Built("c1") /\ Built("c2")

(* The extractor gave both builds the same results. *)
SameExtraction == extractCalls["c1"] = extractCalls["c2"]

(* The keys of the two payloads on which the builds may differ. *)
ClockKeys == IF evt["c1"].kind = "presence" THEN {"timestamp"} ELSE {}

(* C13 as stated: building a payload twice from the same event, of any *)
(* of the three kinds and at any two moments, yields the same key set  *)
(* and the same value for every key, hence the same serialized         *)
(* content (the extractor returning the same results both times).      *)
C13_BuildTwiceIdentical ==
  (BothBuilt /\ SameExtraction) =>
    /\ ret["c1"] = ret["c2"]
    /\ payload["c1"] = payload["c2"]
    /\ (payload["c1"] # Nil /\ payload["c2"] # Nil) =>
         Marshal(payload["c1"]) = Marshal(payload["c2"])

(* C13 amended: two builds of the same event with the same extractor   *)
(* results end alike and yield the same key set and the same value for *)
(* every key, except the key timestamp of a presence payload, which    *)
(* holds the time of the build; two presence builds that read the same *)
(* time are identical too.                                             *)
C13_BuildTwiceIdenticalButBuildTime ==
  (BothBuilt /\ SameExtraction) =>
    /\ ret["c1"] = ret["c2"]
    /\ (payload["c1"] = Nil) <=> (payload["c2"] = Nil)
    /\ payload["c1"] # Nil =>
         /\ DOMAIN payload["c1"] = DOMAIN payload["c2"]
         /\ \A k \in DOMAIN payload["c1"] \ ClockKeys :
              payload["c1"][k] = payload["c2"][k]
         /\ \A c \in Callers : \A k \in ClockKeys :
              payload[c][k] = Str(FormatRFC3339(nowCalls[c][1]))
         /\ nowCalls["c1"] = nowCalls["c2"] =>
              /\ payload["c1"] = payload["c2"]
              /\ Marshal(payload["c1"]) = Marshal(payload["c2"])

(* Two builds of one presence event, unavailable with a last-seen      *)
(* time, at different times: alike but for timestamp.                  *)
C13_Witness ==
  /\ BothBuilt
  /\ evt["c1"].kind = "presence"
  /\ evt["c1"].unavailable /\ ~IsZero(evt["c1"].lastSeen)
  /\ nowCalls["c1"] # nowCalls["c2"]
  /\ payload["c1"]["timestamp"] # payload["c2"]["timestamp"]
  /\ payload["c1"]["last_seen"] = payload["c2"]["last_seen"]

(* ------------------------------------------------------------------ *)
(* C14: the build of a presence event never fails; status is "offline" *)
(* iff the event is marked unavailable and "online" otherwise;         *)
(* last_seen is present, holding the event's last-seen time, iff the   *)
(* event is marked unavailable and its last-seen time is not zero, so  *)
(* an available event never has last_seen whatever its last-seen time. *)
C14_PresenceStatusAndLastSeen ==
  \A c \in Callers :
    (Built(c) /\ evt[c].kind = "presence") =>
      /\ ret[c] = NoError
      /\ payload[c] # Nil
      /\ {"event_type", "from", "timestamp", "status"} \subseteq DOMAIN payload[c]
      /\ DOMAIN payload[c] \subseteq
           {"event_type", "from", "timestamp", "status", "last_seen"}
      /\ payload[c]["event_type"] = Str("presence")
      /\ payload[c]["from"] = Str(evt[c].from)
      /\ payload[c]["status"] \in {Str("online"), Str("offline")}
      /\ payload[c]["status"] = Str("offline") <=> evt[c].unavailable
      /\ "last_seen" \in DOMAIN payload[c] <=>
           (evt[c].unavailable /\ ~IsZero(evt[c].lastSeen))
      /\ "last_seen" \in DOMAIN payload[c] =>
           payload[c]["last_seen"] = Str(FormatRFC3339(evt[c].lastSeen))

(* An available event with a last-seen time, built: online, and no     *)
(* last_seen.                                                          *)
C14_Witness ==
  /\ Built("c1")
  /\ evt["c1"].kind = "presence"
  /\ ~evt["c1"].unavailable
  /\ ~IsZero(evt["c1"].lastSeen)
  /\ payload["c1"]["status"] = Str("online")
  /\ "last_seen" \notin DOMAIN payload["c1"]

(* ------------------------------------------------------------------ *)
(* C15: in the payload of a message event each optional key (from,     *)
(* message, pushname, reaction, view_once, forwarded) is present iff   *)
(* its source is non-empty or true, and no key is present with an      *)
(* empty string or a false value; for an event with no media, no       *)
(* sub-message, no reaction, no forward flag, no view-once flag and    *)
(* empty text the key set is exactly event_type plus those of from,    *)
(* pushname, timestamp whose source is non-empty.                      *)

(* The message event caller c built a payload from. *)
BuiltMessage(c) == Built(c) /\ evt[c].kind = "message" /\ payload[c] # Nil

(* No media, sub-message, reaction, forward flag, view-once flag, text. *)
Bare(e) ==
  /\ e.media = {} /\ e.subs = {}
  /\ buildEventReaction(e).Message = ""
  /\ ~buildForwarded(e) /\ ~e.viewOnce
  /\ buildEventMessage(e).Text = ""

C15_OptionalKeysGated ==
  \A c \in Callers :
    BuiltMessage(c) =>
      LET e == evt[c]
          keys == DOMAIN payload[c]
      IN  /\ payload[c]["event_type"] = Str("message")
          /\ "from" \in keys <=> e.from # ""
          /\ "message" \in keys <=> buildEventMessage(e).Text # ""
          /\ "pushname" \in keys <=> e.pushname # ""
          /\ "reaction" \in keys <=> buildEventReaction(e).Message # ""
          /\ "view_once" \in keys <=> e.viewOnce
          /\ "forwarded" \in keys <=> buildForwarded(e)
          /\ "timestamp" \in keys <=> FormatRFC3339(e.ts) # ""
          /\ \A k \in keys : payload[c][k] # Str("") /\ payload[c][k] # Bool(FALSE)
          /\ "from" \in keys => payload[c]["from"] = Str(e.from)
          /\ "pushname" \in keys => payload[c]["pushname"] = Str(e.pushname)
          /\ Bare(e) =>
               keys = {"event_type"}
                        \cup (IF e.from # "" THEN {"from"} ELSE {})
                        \cup (IF e.pushname # "" THEN {"pushname"} ELSE {})
                        \cup (IF FormatRFC3339(e.ts) # "" THEN {"timestamp"} ELSE {})

(* A message with nothing but a sender and the zero time, built: the   *)
(* keys are event_type, from and timestamp.                            *)
C15_Witness ==
  /\ BuiltMessage("c1")
  /\ Bare(evt["c1"])
  /\ evt["c1"].from # "" /\ evt["c1"].pushname = "" /\ IsZero(evt["c1"].ts)
  /\ DOMAIN payload["c1"] = {"event_type", "from", "timestamp"}

(* ------------------------------------------------------------------ *)
(* C16: when every media extraction of a message event succeeds, the   *)
(* build succeeds and, for each media kind k of audio, document,       *)
(* image, sticker, video, the key k is in the payload iff the event    *)
(* carries medium k, its value being the path the extractor returned   *)
(* for that medium; an event with one image has the key image and no   *)
(* other media key, an event with several media has all their keys in  *)
(* the one payload.                                                    *)

(* The ExtractMedia calls caller c made for medium k. *)
ExtractCallsFor(c, k) == SelectSeq(extractCalls[c], LAMBDA x : x.kind = k)

AllExtracted(c) ==
  \A j \in 1..Len(extractCalls[c]) : extractCalls[c][j].result # ExtractFail

C16_MediaKeysHoldExtractedPaths ==
  \A c \in Callers :
    (Built(c) /\ evt[c].kind = "message" /\ AllExtracted(c)) =>
      /\ ret[c] = NoError
      /\ payload[c] # Nil
      /\ DOMAIN payload[c] \cap MediaKinds = evt[c].media
      /\ \A k \in evt[c].media :
           /\ Len(ExtractCallsFor(c, k)) = 1
           /\ ExtractCallsFor(c, k)[1].root = PathMedia
           /\ payload[c][k] = Str(ExtractCallsFor(c, k)[1].result)

(* A message with a sticker and a video, both extracted to different   *)
(* paths, built: both keys hold their own path.                        *)
C16_Witness ==
  /\ Built("c1")
  /\ evt["c1"].kind = "message"
  /\ evt["c1"].media = {"sticker", "video"}
  /\ AllExtracted("c1")
  /\ payload["c1"]["sticker"] # payload["c1"]["video"]
  /\ DOMAIN payload["c1"] \cap MediaKinds = {"sticker", "video"}

(* ------------------------------------------------------------------ *)
(* C17: the build of a receipt event never fails and its payload has   *)
(* exactly the keys event_type (= "receipt"), from, timestamp,         *)
(* message_ids (also for an empty id list) and receipt_type;           *)
(* receipt_type is the literal "delivered" when the receipt is of the  *)
(* delivered type, whatever the raw value of that type, and the        *)
(* receipt's own type value otherwise.                                 *)
C17_ReceiptKeysAndDeliveredLiteral ==
  \A c \in Callers :
    (Built(c) /\ evt[c].kind = "receipt") =>
      /\ ret[c] = NoError
      /\ payload[c] # Nil
      /\ DOMAIN payload[c] =
           {"event_type", "from", "timestamp", "message_ids", "receipt_type"}
      /\ payload[c]["event_type"] = Str("receipt")
      /\ payload[c]["from"] = Str(evt[c].from)
      /\ payload[c]["timestamp"] = Str(FormatRFC3339(evt[c].ts))
      /\ payload[c]["message_ids"] = List(evt[c].ids)
      /\ payload[c]["receipt_type"] =
           (IF evt[c].type = ReceiptTypeDelivered
            THEN Str("delivered")
            ELSE Str(evt[c].type))

(* A delivered receipt with no message id, built: message_ids is there *)
(* and receipt_type reads "delivered", not the raw type value.         *)
C17_Witness ==
  /\ Built("c1")
  /\ evt["c1"].kind = "receipt"
  /\ evt["c1"].type = ReceiptTypeDelivered
  /\ evt["c1"].ids = <<>>
  /\ "message_ids" \in DOMAIN payload["c1"]
  /\ payload["c1"]["receipt_type"] = Str("delivered")
  /\ payload["c1"]["receipt_type"] # Str(evt["c1"].type)

(* ------------------------------------------------------------------ *)
(* C18: in one forward call the payload is built once, before the      *)
(* first request: the extractor is called once for each medium of the  *)
(* event (once for each medium reached, when an extraction fails and   *)
(* ends the build), however many URLs and retries follow, no request   *)
(* is made without a built payload, and every request handed to        *)
(* client.Do, for every URL, first attempt or retry, carries the       *)
(* content of that payload.                                            *)
ExtractedOncePerMedium(c) ==
  evt[c].kind = "message" =>
    \A k \in evt[c].media :
      /\ Len(ExtractCallsFor(c, k)) <= 1
      /\ payload[c] # Nil => Len(ExtractCallsFor(c, k)) = 1

C18_OnePayloadInEveryRequest ==
  \A c \in Callers :
    pc[c] # "idle" =>
      /\ ExtractedOncePerMedium(c)
      /\ Len(nowCalls[c]) <= 1
      /\ log[c] # <<>> => payload[c] # Nil
      /\ pc[c] = "attempting" => req[c].Body = Marshal(payload[c])

(* The part of C18 the retry loop keeps: no step after the build calls *)
(* the extractor or the clock again or changes the event, the payload  *)
(* or the configuration.                                               *)
BuildFrame ==
  \A c \in Callers :
    pc[c] # "idle" =>
      /\ evt[c]' = evt[c]
      /\ payload[c]' = payload[c]
      /\ extractCalls[c]' = extractCalls[c]
      /\ nowCalls[c]' = nowCalls[c]
      /\ config' = config

PayloadBuiltOnce ==
  /\ [](\A c \in Callers : pc[c] # "idle" =>
          /\ ExtractedOncePerMedium(c)
          /\ Len(nowCalls[c]) <= 1
          /\ log[c] # <<>> => payload[c] # Nil)
  /\ [][BuildFrame]_vars

(* ------------------------------------------------------------------ *)
(* C19: with no URL configured, forwarding a supported event still     *)
(* runs the builder, every media extraction included; the call fails   *)
(* with the download error when an extraction fails and returns nil    *)
(* when the build succeeds; it creates no request, calls client.Do     *)
(* and time.Sleep not once.                                            *)
C19_EmptyListBuildsAndSendsNothing ==
  \A c \in Callers :
    (Len(WhatsappWebhook) = 0 /\ pc[c] # "idle" /\ evt[c].kind \in SupportedKinds) =>
      /\ pc[c] = "done"
      /\ log[c] = <<>>
      /\ req[c] = NoRequest
      /\ postBody[c] = <<>>
      /\ ret[c] = NoError <=> AllExtracted(c)
      /\ AllExtracted(c) =>
           /\ payload[c] # Nil
           /\ payload[c]["event_type"] = Str(evt[c].kind)
           /\ evt[c].kind = "message" =>
                \A k \in evt[c].media : Len(ExtractCallsFor(c, k)) = 1
      /\ ~AllExtracted(c) =>
           /\ ret[c].type = "WebhookError"
           /\ ret[c].msg = "Failed to download"
           /\ payload[c] = Nil

(* A message with an audio and a video forwarded with no URL           *)
(* configured: both extracted, nil returned, nothing sent.             *)
C19_Witness ==
  /\ Len(WhatsappWebhook) = 0
  /\ pc["c1"] = "done"
  /\ evt["c1"].kind = "message"
  /\ evt["c1"].media = {"audio", "video"}
  /\ Len(extractCalls["c1"]) = 2
  /\ AllExtracted("c1")
  /\ ret["c1"] = NoError
  /\ log["c1"] = <<>>

====
